---- MODULE Spec2Model ----
(***************************************************************************)
(* Model of nansi's execution engine (src/src/exec/exec.rs) and of the     *)
(* hosting CLI (src/src/main.rs).                                          *)
(*                                                                         *)
(* Argument strings are sequences of one-character strings; labels and     *)
(* printed item references are sequences of character codes, so that the   *)
(* lexicographic sort of get_label_duplicates can be computed.             *)
(***************************************************************************)
EXTENDS Integers, Sequences, FiniteSets, TLC

VARIABLES exec_list,        \* NansiFile.exec_list, as the file deserializes
          env,              \* the process environment: name -> value
          pc,               \* position in main / execute
          idx,              \* 0-based loop index of execute
          succ_label_list,  \* labels of the tasks that succeeded so far
          log,              \* lines printed, interleaved with the engine's steps
          outcome,          \* ExecStatus of every task processed so far
          spawned,          \* argument vectors handed to Command, by position
          exit_code,        \* process exit status, -1 while running
          arg, compiled     \* input and result of a single compile_arg call

vars == <<exec_list, env, pc, idx, succ_label_list, log, outcome, spawned,
          exit_code, arg, compiled>>

\* ------------------------------------------------------------------ bounds
MaxLen == 7
MaxTasks == 2
MaxTemplatedTasks == 2
MaxGateTasks == 3
MaxLabelTasks == 4

\* ------------------------------------------------------- generic helpers
None == [status |-> "none"]

SeqsUpTo(S, n) == UNION {[1..k -> S] : k \in 0..n}

\* ------------------------------------------------- argument templating
\* std::env::var: Err for a name that is not set (the empty name never is).
EnvDefined(e, name) == name # <<>> /\ name \in DOMAIN e

\* str::replace: every non-overlapping match of pat, left to right.
RECURSIVE Replace(_, _, _)
Replace(s, pat, rep) ==
    IF Len(s) < Len(pat) THEN s
    ELSE IF SubSeq(s, 1, Len(pat)) = pat
         THEN rep \o Replace(SubSeq(s, Len(pat) + 1, Len(s)), pat, rep)
         ELSE <<Head(s)>> \o Replace(Tail(s), pat, rep)

\* A "{" at 1-based position i opens a reference unless preceded by \ or $.
OpensRef(a, i) == a[i] = "{" /\ (i = 1 \/ (a[i - 1] # "\\" /\ a[i - 1] # "$"))

\* A "}" at 1-based position i closes a reference unless preceded by \.
ClosesRef(a, i) == a[i] = "}" /\ (i = 1 \/ a[i - 1] # "\\")

\* ScanTags panicking on unbalanced delimiters too: an unescaped "}" met
\* while not recording, and the end of the argument met while recording.
RECURSIVE ScanTagsBalanced(_, _, _, _, _)
ScanTagsBalanced(a, i, record, tag, tags) ==
    IF i > Len(a) THEN [panic |-> record, tags |-> tags]
    ELSE IF a[i] = "{" THEN
        IF OpensRef(a, i)
        THEN IF record THEN [panic |-> TRUE, tags |-> tags]
             ELSE ScanTagsBalanced(a, i + 1, TRUE, tag, tags)
        ELSE ScanTagsBalanced(a, i + 1, record, tag, tags)
    ELSE IF a[i] = "}" THEN
        IF ClosesRef(a, i)
        THEN IF record THEN ScanTagsBalanced(a, i + 1, FALSE, <<>>, Append(tags, tag))
             ELSE [panic |-> TRUE, tags |-> tags]
        ELSE ScanTagsBalanced(a, i + 1, record, tag, tags)
    ELSE ScanTagsBalanced(a, i + 1, record, IF record THEN Append(tag, a[i]) ELSE tag, tags)

\* ScanTags without the panic: an unescaped "{" met while recording is
\* passed over.
RECURSIVE ScanTagsNoPanic(_, _, _, _, _)
ScanTagsNoPanic(a, i, record, tag, tags) ==
    IF i > Len(a) THEN [panic |-> FALSE, tags |-> tags]
    ELSE IF a[i] = "{" THEN
        ScanTagsNoPanic(a, i + 1, record \/ OpensRef(a, i), tag, tags)
    ELSE IF a[i] = "}" THEN
        IF ClosesRef(a, i) /\ record
        THEN ScanTagsNoPanic(a, i + 1, FALSE, <<>>, Append(tags, tag))
        ELSE ScanTagsNoPanic(a, i + 1, record, tag, tags)
    ELSE ScanTagsNoPanic(a, i + 1, record, IF record THEN Append(tag, a[i]) ELSE tag, tags)

\* The scanning loop of compile_arg: the collected tags, or a panic on an
\* unescaped "{" met while recording.
RECURSIVE ScanTags(_, _, _, _, _)
ScanTags(a, i, record, tag, tags) ==
    IF i > Len(a) THEN [panic |-> FALSE, tags |-> tags]
    ELSE IF a[i] = "{" THEN
        IF OpensRef(a, i)
        THEN IF record THEN [panic |-> TRUE, tags |-> tags]
             ELSE ScanTags(a, i + 1, TRUE, tag, tags)
        ELSE ScanTags(a, i + 1, record, tag, tags)
    ELSE IF a[i] = "}" THEN
        IF ClosesRef(a, i) /\ record
        THEN ScanTags(a, i + 1, FALSE, <<>>, Append(tags, tag))
        ELSE ScanTags(a, i + 1, record, tag, tags)
    ELSE ScanTags(a, i + 1, record, IF record THEN Append(tag, a[i]) ELSE tag, tags)

\* ReplaceTags with unwrap_or_default in place of unwrap: an unset name
\* yields the empty string.
RECURSIVE ReplaceTagsLenient(_, _, _, _)
ReplaceTagsLenient(s, tags, e, lookups) ==
    IF tags = <<>> THEN [status |-> "ok", value |-> s, lookups |-> lookups]
    ELSE LET t == Head(tags) IN
         ReplaceTagsLenient(Replace(s, <<"{">> \o t \o <<"}">>,
                                    IF EnvDefined(e, t) THEN e[t] ELSE <<>>),
                            Tail(tags), e, Append(lookups, t))

\* ReplaceTags with the placeholder built by format!("{t}"): the bare name.
RECURSIVE ReplaceTagsBare(_, _, _, _)
ReplaceTagsBare(s, tags, e, lookups) ==
    IF tags = <<>> THEN [status |-> "ok", value |-> s, lookups |-> lookups]
    ELSE LET t == Head(tags) IN
         IF ~EnvDefined(e, t)
         THEN [status |-> "panic", value |-> <<>>, lookups |-> Append(lookups, t)]
         ELSE ReplaceTagsBare(Replace(s, t, e[t]), Tail(tags), e, Append(lookups, t))

\* ReplaceTags going through the tags last to first.
RECURSIVE ReplaceTagsReversed(_, _, _, _)
ReplaceTagsReversed(s, tags, e, lookups) ==
    IF tags = <<>> THEN [status |-> "ok", value |-> s, lookups |-> lookups]
    ELSE LET t == tags[Len(tags)] IN
         IF ~EnvDefined(e, t)
         THEN [status |-> "panic", value |-> <<>>, lookups |-> Append(lookups, t)]
         ELSE ReplaceTagsReversed(Replace(s, <<"{">> \o t \o <<"}">>, e[t]),
                                  SubSeq(tags, 1, Len(tags) - 1), e, Append(lookups, t))

\* The replacement loop of compile_arg: one env::var lookup and one replace
\* per collected tag, in collection order; unwrap panics on an unset name.
RECURSIVE ReplaceTags(_, _, _, _)
ReplaceTags(s, tags, e, lookups) ==
    IF tags = <<>> THEN [status |-> "ok", value |-> s, lookups |-> lookups]
    ELSE LET t == Head(tags) IN
         IF ~EnvDefined(e, t)
         THEN [status |-> "panic", value |-> <<>>, lookups |-> Append(lookups, t)]
         ELSE ReplaceTags(Replace(s, <<"{">> \o t \o <<"}">>, e[t]),
                          Tail(tags), e, Append(lookups, t))

compile_arg(a, e) ==
    LET sc == ScanTags(a, 1, FALSE, <<>>, <<>>) IN
    IF sc.panic THEN [status |-> "panic", value |-> <<>>, lookups |-> <<>>]
    ELSE ReplaceTags(a, sc.tags, e, <<>>)

\* ------------------------------------- inputs of the templating checks
Chars == {"{", "}", "\\", "$", "A"}
NameA == <<"A">>
NameDollar == <<"$">>
ArgEnvs == { <<>>,
             [n \in {NameA} |-> <<>>],
             [n \in {NameA} |-> <<"v">>],
             [n \in {NameA} |-> <<"{", "A">>],
             [n \in {NameA, NameDollar} |->
                 IF n = NameA THEN <<"{", "$", "}">> ELSE <<"v">>] }
ArgStrings == SeqsUpTo(Chars, MaxLen)

\* The environment matters to the arguments whose scan collects a name;
\* the others are compiled with A set to "v".
Collects(a) ==
    LET sc == ScanTags(a, 1, FALSE, <<>>, <<>>) IN ~sc.panic /\ sc.tags # <<>>

InitArg ==
    /\ arg \in ArgStrings
    /\ env \in IF Collects(arg) THEN ArgEnvs ELSE {[n \in {NameA} |-> <<"v">>]}
    /\ compiled = None
    /\ pc = "arg"
    /\ exec_list = <<>> /\ idx = 0 /\ succ_label_list = <<>>
    /\ log = <<>> /\ outcome = <<>> /\ spawned = <<>> /\ exit_code = -1

CompileArg ==
    /\ pc = "arg"
    /\ compiled = None
    /\ compiled' = compile_arg(arg, env)
    /\ pc' = "arg_done"
    /\ UNCHANGED <<exec_list, env, idx, succ_label_list, log, outcome, spawned,
                   exit_code, arg>>

NextArg == CompileArg

SpecArg == InitArg /\ [][NextArg]_vars

\* ------------------------------------------------------------ the engine
Contains(seq, x) == \E i \in 1..Len(seq) : seq[i] = x

\* usize::to_string: the decimal digits, as character codes.
RECURSIVE to_string(_)
to_string(n) == IF n < 10 THEN <<48 + n>> ELSE to_string(n \div 10) \o <<48 + (n % 10)>>

\* str::cmp: lexicographic by character code, a proper prefix first.
RECURSIVE StrLess(_, _)
StrLess(a, b) ==
    IF b = <<>> THEN FALSE
    ELSE IF a = <<>> THEN TRUE
    ELSE IF Head(a) # Head(b) THEN Head(a) < Head(b)
    ELSE StrLess(Tail(a), Tail(b))

\* Vec::sort_by(|a, b| a.cmp(&b)) on distinct keys.
RECURSIVE InsertSorted(_, _)
InsertSorted(sorted, x) ==
    IF sorted = <<>> THEN <<x>>
    ELSE IF StrLess(x, Head(sorted)) THEN <<x>> \o sorted
    ELSE <<Head(sorted)>> \o InsertSorted(Tail(sorted), x)

RECURSIVE SortKeys(_)
SortKeys(keys) ==
    IF keys = <<>> THEN <<>> ELSE InsertSorted(SortKeys(Tail(keys)), Head(keys))

\* The counting loop of get_label_duplicates: occurrences of a non-empty
\* label, in a u16.
LabelCount(list, l) == Cardinality({i \in 1..Len(list) : list[i].label = l}) % 65536

\* The keys of exec_map: the non-empty labels of the list.
MapKeys(list) == {list[i].label : i \in 1..Len(list)} \ {<<>>}

\* The orders in which a HashMap may iterate over a key set.
KeyOrders(S) == {q \in [1..Cardinality(S) -> S] : \A i, j \in DOMAIN q : i # j => q[i] # q[j]}

\* get_label_duplicates without the sort.
get_label_duplicates_unsorted(list, order) ==
    LET Kept(l) == LabelCount(list, l) > 1 IN SelectSeq(order, Kept)

\* get_label_duplicates, given the iteration order of exec_map: the keys
\* retain keeps (count > 1), collected in that order, then sorted.
get_label_duplicates(list, order) ==
    LET Kept(l) == LabelCount(list, l) > 1 IN SortKeys(SelectSeq(order, Kept))

\* exec_meets_prerequisites returning true at the first prerequisite found.
exec_meets_any_prerequisite(exec_item, succ) ==
    \/ exec_item.prerequisites = <<>>
    \/ \E k \in 1..Len(exec_item.prerequisites) : Contains(succ, exec_item.prerequisites[k])

\* exec_meets_prerequisites starting from false.
exec_meets_some_prerequisites(exec_item, succ) ==
    /\ exec_item.prerequisites # <<>>
    /\ \A k \in 1..Len(exec_item.prerequisites) : Contains(succ, exec_item.prerequisites[k])

exec_meets_prerequisites(exec_item, succ) ==
    \A k \in 1..Len(exec_item.prerequisites) : Contains(succ, exec_item.prerequisites[k])

get_item_str(exec_item, i) ==
    IF exec_item.label = <<>> THEN <<to_string(i)>> ELSE <<to_string(i), exec_item.label>>

\* accrues without the contains test.
accrues_every_success(exec_status, exec_item, succ) ==
    exec_status = "OK" /\ exec_item.label # <<>>

\* The condition under which execute pushes the label of a task.
accrues(exec_status, exec_item, succ) ==
    /\ exec_status = "OK"
    /\ exec_item.label # <<>>
    /\ ~Contains(succ, exec_item.label)

\* push_label keeping the labels of the tasks whose latest run succeeded: a
\* failure takes the label out again.
push_label_latest(succ, exec_status, exec_item) ==
    IF accrues(exec_status, exec_item, succ) THEN Append(succ, exec_item.label)
    ELSE IF exec_status = "OK" THEN succ
    ELSE LET Other(l) == l # exec_item.label IN SelectSeq(succ, Other)

\* succ_label_list after the task has run: the label is pushed when accrues
\* holds, and nothing is ever taken out.
push_label(succ, exec_status, exec_item) ==
    IF accrues(exec_status, exec_item, succ) THEN Append(succ, exec_item.label) ELSE succ

\* main dropping the Result of execute and of NansiFile::from.
main_exit_ignored(result) == IF result = "panic" THEN 101 ELSE 0

\* The exit status of the process for what main comes back with: Ok(()),
\* Err(e), or a panic unwinding through it.
main_exit(result) ==
    CASE result = "ok" -> 0 [] result = "err" -> 1 [] result = "panic" -> 101

\* The token print_status prints for an ExecStatus.
StatusToken(st) ==
    CASE st = "OK" -> "OK" [] st = "ERR" -> "FAIL" [] st = "WARN" -> "WARN" [] st = "SKIP" -> "SKIP"

\* One printed line or engine step.  pos is the 1-based position of the task
\* the loop is at (0 outside the loop); ref is what the line shows.
Ev(kind, pos, tok, ref) == [kind |-> kind, pos |-> pos, tok |-> tok, ref |-> ref]

print_status(exec_item, i, st, pos) == Ev("status", pos, StatusToken(st), get_item_str(exec_item, i))

\* The status line of a task, printed when print_status is set.
status_lines(exec_item, i, st, pos) ==
    IF exec_item.print_status THEN <<print_status(exec_item, i, st, pos)>> ELSE <<>>

\* output_lines without the test of print_output.
output_lines_always(exec_item, output, pos) == <<Ev("output", pos, output, <<>>)>>

\* The captured output of a task, printed when print_output is set.
output_lines(exec_item, output, pos) ==
    IF exec_item.print_output THEN <<Ev("output", pos, output, <<>>)>> ELSE <<>>

\* skip_lines with the diagnostic ahead of the status line.
skip_lines_diag_first(exec_item, i) ==
    <<Ev("diag", i + 1, "", get_item_str(exec_item, i))>>
        \o status_lines(exec_item, i + 1, "SKIP", i + 1)

\* What execute prints for a task whose gate check fails, at loop index i:
\* the SKIP status line, then the diagnostic.
skip_lines(exec_item, i) ==
    status_lines(exec_item, i + 1, "SKIP", i + 1)
        \o <<Ev("diag", i + 1, "", get_item_str(exec_item, i))>>

\* What Command::output can come back with.
ProcResults == {"spawn_error", "exit_zero", "exit_nonzero",
                "exit_zero_not_utf8", "exit_nonzero_not_utf8"}

\* compile_arg over the argument list, in order; a panic ends it.
RECURSIVE CompileArgs(_, _)
CompileArgs(args, e) ==
    IF args = <<>> THEN [status |-> "ok", args |-> <<>>]
    ELSE LET c == compile_arg(Head(args), e) IN
         IF c.status = "panic" THEN [status |-> "panic", args |-> <<>>]
         ELSE LET rest == CompileArgs(Tail(args), e) IN
              IF rest.status = "panic" THEN rest
              ELSE [status |-> "ok", args |-> <<c.value>> \o rest.args]

\* run_exec with the spawn error propagated by ? instead of matched.
run_exec_propagate(exec_item, e, r) ==
    LET ca == CompileArgs(exec_item.args, e) IN
    IF ca.status = "panic"
    THEN [kind |-> "panic", status |-> "ERR", output |-> "", args |-> <<>>]
    ELSE CASE r = "exit_zero" ->
                [kind |-> "ok", status |-> "OK", output |-> "stdout", args |-> ca.args]
           [] r = "exit_nonzero" ->
                [kind |-> "ok", status |-> "ERR", output |-> "stderr", args |-> ca.args]
           [] OTHER ->
                [kind |-> "err", status |-> "ERR", output |-> "", args |-> ca.args]

\* run_exec taking stdout whatever the exit status.
run_exec_stdout(exec_item, e, r) ==
    LET ca == CompileArgs(exec_item.args, e) IN
    IF ca.status = "panic"
    THEN [kind |-> "panic", status |-> "ERR", output |-> "", args |-> <<>>]
    ELSE CASE r = "spawn_error" ->
                [kind |-> "ok", status |-> "ERR", output |-> "oserror", args |-> ca.args]
           [] r = "exit_zero" ->
                [kind |-> "ok", status |-> "OK", output |-> "stdout", args |-> ca.args]
           [] r = "exit_nonzero" ->
                [kind |-> "ok", status |-> "ERR", output |-> "stdout", args |-> ca.args]
           [] OTHER ->
                [kind |-> "err", status |-> "ERR", output |-> "", args |-> ca.args]

\* run_exec decoding the captured bytes only when they are to be printed.
run_exec_lazy_decode(exec_item, e, r) ==
    LET ca == CompileArgs(exec_item.args, e) IN
    IF ca.status = "panic"
    THEN [kind |-> "panic", status |-> "ERR", output |-> "", args |-> <<>>]
    ELSE CASE r = "spawn_error" ->
                [kind |-> "ok", status |-> "ERR", output |-> "oserror", args |-> ca.args]
           [] r = "exit_zero" ->
                [kind |-> "ok", status |-> "OK", output |-> "stdout", args |-> ca.args]
           [] r = "exit_nonzero" ->
                [kind |-> "ok", status |-> "ERR", output |-> "stderr", args |-> ca.args]
           [] r = "exit_zero_not_utf8" /\ ~exec_item.print_output ->
                [kind |-> "ok", status |-> "OK", output |-> "stdout", args |-> ca.args]
           [] r = "exit_nonzero_not_utf8" /\ ~exec_item.print_output ->
                [kind |-> "ok", status |-> "ERR", output |-> "stderr", args |-> ca.args]
           [] OTHER ->
                [kind |-> "err", status |-> "ERR", output |-> "", args |-> ca.args]

\* run_exec, given what the process does (r): a panic in templating, an
\* error from String::from_utf8, or (exec_status, output).
run_exec(exec_item, e, r) ==
    LET ca == CompileArgs(exec_item.args, e) IN
    IF ca.status = "panic"
    THEN [kind |-> "panic", status |-> "ERR", output |-> "", args |-> <<>>]
    ELSE CASE r = "spawn_error" ->
                [kind |-> "ok", status |-> "ERR", output |-> "oserror", args |-> ca.args]
           [] r = "exit_zero" ->
                [kind |-> "ok", status |-> "OK", output |-> "stdout", args |-> ca.args]
           [] r = "exit_nonzero" ->
                [kind |-> "ok", status |-> "ERR", output |-> "stderr", args |-> ca.args]
           [] OTHER ->
                [kind |-> "err", status |-> "ERR", output |-> "", args |-> ca.args]

\* loop_branch with the arguments templated ahead of the gate check.
loop_branch_template_first(exec_item, succ, e) ==
    IF CompileArgs(exec_item.args, e).status = "panic" THEN "panic"
    ELSE IF ~exec_meets_prerequisites(exec_item, succ) THEN "skip"
    ELSE "run"

\* The way one iteration of the loop of execute goes: the gate check first,
\* then the templating inside run_exec, then the process.
loop_branch(exec_item, succ, e) ==
    IF ~exec_meets_prerequisites(exec_item, succ) THEN "skip"
    ELSE IF CompileArgs(exec_item.args, e).status = "panic" THEN "panic"
    ELSE "run"

\* ------------------------------------------------- inputs of the engine
LabelA == <<97>>
LabelB == <<98>>

RefArgs == << <<"$", "{", "A", "}">>, <<"{", "A", "}">> >>
BadArgs == << <<"{", "A", "}", "{", "{">> >>

Item(label, args, ps, po, prereqs) ==
    [label |-> label, exec |-> "ls", args |-> args, print_status |-> ps,
     print_output |-> po, prerequisites |-> prereqs]

\* Every combination of the flags, labelled or not, gated or not.
FlagItems ==
    {Item(l, <<>>, ps, po, p) :
        l \in {<<>>, LabelA}, ps \in BOOLEAN, po \in BOOLEAN, p \in {<<>>, <<LabelA>>}}

\* Tasks with the templated argument lists, gated or not.
TemplatedItems ==
    {Item(LabelA, a, TRUE, TRUE, p) : a \in {RefArgs, BadArgs}, p \in {<<>>, <<LabelA>>}}

\* Each label against each prerequisite list.
GateItems ==
    {Item(l, <<>>, TRUE, TRUE, p) :
        l \in {LabelA, LabelB}, p \in {<<>>, <<LabelA>>, <<LabelA, LabelB>>}}

\* Labelled tasks without prerequisites.
LabelItems == {it \in GateItems : it.prerequisites = <<>>}

TaskLists ==
    SeqsUpTo(FlagItems, MaxTasks) \cup SeqsUpTo(TemplatedItems, MaxTemplatedTasks)
        \cup SeqsUpTo(GateItems, MaxGateTasks)
        \cup SeqsUpTo(LabelItems, MaxLabelTasks)

\* A is set, or it is not; the latter matters to the lists that hold
\* arguments.
Envs == { <<>>, [n \in {NameA} |-> <<"v">>] }
Templated(list) == \E k \in 1..Len(list) : list[k].args # <<>>

Init ==
    /\ exec_list \in TaskLists
    /\ env \in Envs
    /\ env = <<>> => Templated(exec_list)
    /\ pc = "main"
    /\ idx = 0
    /\ succ_label_list = <<>>
    /\ log = <<>>
    /\ outcome = <<>>
    /\ spawned = <<>>
    /\ exit_code = -1
    /\ arg = <<>>
    /\ compiled = None

\* ----------------------------------------------------------------- main
\* NansiFile::from: fs::read_to_string fails; main returns the error.
FromReadError ==
    /\ pc = "main"
    /\ pc' = "exit"
    /\ exit_code' = main_exit("err")
    /\ log' = Append(log, Ev("error", 0, "io", <<>>))
    /\ UNCHANGED <<exec_list, env, idx, succ_label_list, outcome, spawned, arg, compiled>>

\* NansiFile::from: serde_json::from_str fails; main returns the error.
FromParseError ==
    /\ pc = "main"
    /\ pc' = "exit"
    /\ exit_code' = main_exit("err")
    /\ log' = Append(log, Ev("error", 0, "invalid_data", <<>>))
    /\ UNCHANGED <<exec_list, env, idx, succ_label_list, outcome, spawned, arg, compiled>>

\* NansiFile::from returns the file; main calls execute.
FromOk ==
    /\ pc = "main"
    /\ pc' = "execute"
    /\ UNCHANGED <<exec_list, env, idx, succ_label_list, log, outcome, spawned,
                   exit_code, arg, compiled>>

\* execute up to the loop: the header line, the duplicate warning, the
\* empty succ_label_list.
ExecuteBegin ==
    /\ pc = "execute"
    /\ \E order \in KeyOrders(MapKeys(exec_list)) :
          LET duplicates == get_label_duplicates(exec_list, order) IN
          log' = log \o <<Ev("header", 0, "", <<>>)>>
                     \o (IF Len(duplicates) > 0
                         THEN <<Ev("warn", 0, "WARN", duplicates)>> ELSE <<>>)
    /\ succ_label_list' = <<>>
    /\ idx' = 0
    /\ pc' = "loop"
    /\ UNCHANGED <<exec_list, env, outcome, spawned, exit_code, arg, compiled>>

\* One iteration whose gate check fails: SKIP line, diagnostic, continue.
LoopSkip ==
    /\ pc = "loop"
    /\ idx < Len(exec_list)
    /\ LET exec_item == exec_list[idx + 1] IN
       /\ loop_branch(exec_item, succ_label_list, env) = "skip"
       /\ log' = log \o <<Ev("gate", idx + 1, "unmet", <<>>)>> \o skip_lines(exec_item, idx)
    /\ outcome' = Append(outcome, "SKIP")
    /\ idx' = idx + 1
    /\ UNCHANGED <<exec_list, env, pc, succ_label_list, spawned, exit_code, arg, compiled>>

\* One iteration whose gate check passes and whose run_exec returns Ok.
LoopRun ==
    /\ pc = "loop"
    /\ idx < Len(exec_list)
    /\ \E r \in ProcResults :
       LET exec_item == exec_list[idx + 1]
           res == run_exec(exec_item, env, r)
           push == push_label(succ_label_list, res.status, exec_item) # succ_label_list
       IN
       /\ loop_branch(exec_item, succ_label_list, env) = "run"
       /\ res.kind = "ok"
       /\ spawned' = Append(spawned, [pos |-> idx + 1, args |-> res.args])
       /\ succ_label_list' = push_label(succ_label_list, res.status, exec_item)
       /\ log' = log \o <<Ev("gate", idx + 1, "met", <<>>)>>
                     \o <<Ev("spawn", idx + 1, r, <<>>)>>
                     \o (IF push THEN <<Ev("accrue", idx + 1, "", <<exec_item.label>>)>>
                         ELSE <<>>)
                     \o status_lines(exec_item, idx + 1, res.status, idx + 1)
                     \o output_lines(exec_item, res.output, idx + 1)
       /\ outcome' = Append(outcome, res.status)
    /\ idx' = idx + 1
    /\ UNCHANGED <<exec_list, env, pc, exit_code, arg, compiled>>

\* One iteration whose gate check passes and whose compile_arg panics: the
\* process unwinds out of main.
LoopTemplatePanic ==
    /\ pc = "loop"
    /\ idx < Len(exec_list)
    /\ LET exec_item == exec_list[idx + 1] IN
       /\ loop_branch(exec_item, succ_label_list, env) = "panic"
       /\ run_exec(exec_item, env, "exit_zero").kind = "panic"
    /\ log' = log \o <<Ev("gate", idx + 1, "met", <<>>), Ev("panic", idx + 1, "", <<>>)>>
    /\ pc' = "exit"
    /\ exit_code' = main_exit("panic")
    /\ UNCHANGED <<exec_list, env, idx, succ_label_list, outcome, spawned, arg, compiled>>

\* One iteration whose gate check passes, whose process runs and whose
\* captured output String::from_utf8 rejects: execute returns the error.
LoopDecodeError ==
    /\ pc = "loop"
    /\ idx < Len(exec_list)
    /\ \E r \in ProcResults :
       LET exec_item == exec_list[idx + 1]
           res == run_exec(exec_item, env, r)
       IN
       /\ loop_branch(exec_item, succ_label_list, env) = "run"
       /\ res.kind = "err"
       /\ spawned' = Append(spawned, [pos |-> idx + 1, args |-> res.args])
       /\ log' = log \o <<Ev("gate", idx + 1, "met", <<>>), Ev("spawn", idx + 1, r, <<>>),
                           Ev("error", idx + 1, "utf8", <<>>)>>
    /\ pc' = "exit"
    /\ exit_code' = main_exit("err")
    /\ UNCHANGED <<exec_list, env, idx, succ_label_list, outcome, arg, compiled>>

\* The loop is over: execute returns Ok(()), main returns Ok(()).
ExecuteReturn ==
    /\ pc = "loop"
    /\ idx = Len(exec_list)
    /\ pc' = "exit"
    /\ exit_code' = main_exit("ok")
    /\ UNCHANGED <<exec_list, env, idx, succ_label_list, log, outcome, spawned, arg, compiled>>

Next ==
    \/ FromReadError
    \/ FromParseError
    \/ FromOk
    \/ ExecuteBegin
    \/ LoopSkip
    \/ LoopRun
    \/ LoopTemplatePanic
    \/ LoopDecodeError
    \/ ExecuteReturn

Spec == Init /\ [][Next]_vars

\* ----------------------------------------------- vocabulary of the claims
Positions == 1..Len(exec_list)
Processed == 1..Len(outcome)
Elems(seq) == {seq[i] : i \in 1..Len(seq)}
NoRepeat(seq) == \A i, j \in 1..Len(seq) : i # j => seq[i] # seq[j]

\* Some task before position k carries label l and ended OK.
OkBefore(k, l) ==
    \E j \in 1..(k - 1) : j <= Len(outcome) /\ exec_list[j].label = l /\ outcome[j] = "OK"

\* Task k lists a prerequisite that no earlier task completed with OK.
Unmet(k) ==
    \E q \in 1..Len(exec_list[k].prerequisites) : ~OkBefore(k, exec_list[k].prerequisites[q])

LogAt(kinds, k) == {i \in 1..Len(log) : log[i].kind \in kinds /\ log[i].pos = k}
SpawnedAt(k) == \E i \in 1..Len(spawned) : spawned[i].pos = k
Fatal == {i \in 1..Len(log) : log[i].kind \in {"error", "panic"}}
Printed == {"status", "diag", "output"}

\* C1: after the task at position i has been processed, succ_label_list
\* holds exactly the non-empty labels of the tasks at positions <= i whose
\* outcome was OK, each once.
C1_SuccessLabelsExact ==
    /\ Elems(succ_label_list)
         = {exec_list[k].label : k \in {j \in Processed : outcome[j] = "OK"}} \ {<<>>}
    /\ NoRepeat(succ_label_list)

\* Two tasks sharing a label both succeeded, and a labelled task failed.
C1_Witness ==
    /\ \E i, j \in Processed :
          /\ i < j /\ exec_list[i].label # <<>> /\ exec_list[i].label = exec_list[j].label
          /\ outcome[i] = "OK" /\ outcome[j] = "OK"
    /\ \E k \in Processed :
          /\ outcome[k] = "ERR" /\ exec_list[k].label # <<>>
          /\ exec_list[k].label \notin Elems(succ_label_list)

\* C2: a task with a prerequisite that no earlier task completed with OK
\* gets outcome SKIP and is never spawned.
C2_UnmetIsSkipped ==
    /\ \A k \in Processed : Unmet(k) => outcome[k] = "SKIP"
    /\ \A k \in Positions : Unmet(k) => ~SpawnedAt(k) /\ LogAt({"spawn"}, k) = {}

\* A skipped task whose prerequisite label is carried by an earlier task
\* that failed, and another whose prerequisite is its own label.
C2_Witness ==
    /\ \E k \in Processed : \E j \in 1..(k - 1) :
          /\ outcome[k] = "SKIP" /\ outcome[j] = "ERR"
          /\ exec_list[k].prerequisites = <<exec_list[j].label>>
    /\ \E k \in Processed :
          outcome[k] = "SKIP" /\ exec_list[k].prerequisites = <<exec_list[k].label>>

\* C3: a task with no prerequisites is never skipped: its gate check
\* passes and, unless the run aborts in it, it is spawned.
C3_NoPrerequisitesNeverSkipped ==
    /\ \A k \in Processed :
          exec_list[k].prerequisites = <<>> => outcome[k] # "SKIP" /\ SpawnedAt(k)
    /\ \A i \in 1..Len(log) :
          (log[i].kind = "gate" /\ exec_list[log[i].pos].prerequisites = <<>>)
              => log[i].tok = "met"

\* A task without prerequisites ran both on an empty and on a non-empty
\* succ_label_list.
C3_Witness ==
    /\ Len(outcome) >= 2
    /\ exec_list[1].prerequisites = <<>> /\ exec_list[1].label # <<>> /\ outcome[1] = "OK"
    /\ exec_list[2].prerequisites = <<>> /\ outcome[2] \in {"OK", "ERR"}

\* The item reference of the task at 1-based position k.
ItemRef(k) ==
    IF exec_list[k].label = <<>> THEN <<to_string(k)>>
    ELSE <<to_string(k), exec_list[k].label>>

\* C4: every item reference printed for the task at position p, in its
\* status line and in its skip diagnostic, is [p][label], or [p] when
\* the task is unlabelled.
C4_ItemReferenceUsesPosition ==
    \A i \in 1..Len(log) :
        log[i].kind \in {"status", "diag"} => log[i].ref = ItemRef(log[i].pos)

\* C5: a spawn failure or non-zero exit is recorded as FAIL and never
\* aborts: the run stops early only on a templating or decoding error,
\* the loop goes on after a failed task, and a run without such an error gate-checks
\* every task, spawns those whose prerequisites hold and exits with success.
C5_TaskFailureNeverAborts ==
    /\ \A i \in 1..Len(log) :
          (log[i].kind = "spawn" /\ log[i].tok \in {"spawn_error", "exit_nonzero"})
              => /\ log[i].pos \in Processed
                 /\ outcome[log[i].pos] = "ERR"
                 /\ exec_list[log[i].pos].print_status
                       => \E j \in LogAt({"status"}, log[i].pos) : log[j].tok = "FAIL"
    /\ (pc = "loop" /\ outcome # <<>> /\ outcome[Len(outcome)] = "ERR") => ENABLED Next
    /\ \A k \in 1..idx : LogAt({"gate"}, k) # {}
    /\ (pc = "exit" /\ Fatal = {})
          => /\ exit_code = 0
             /\ Len(outcome) = Len(exec_list)
             /\ \A k \in Positions : LogAt({"gate"}, k) # {} /\ (Unmet(k) \/ SpawnedAt(k))

\* A finished run in which one task could not be spawned, one exited
\* non-zero, and a later task still ran.
C5_Witness ==
    /\ pc = "exit" /\ exit_code = 0
    /\ \E i, j, k \in 1..Len(log) :
          /\ log[i].kind = "spawn" /\ log[i].tok = "spawn_error"
          /\ log[j].kind = "spawn" /\ log[j].tok = "exit_nonzero"
          /\ log[k].kind = "spawn" /\ log[k].tok = "exit_zero"
          /\ log[i].pos < log[k].pos /\ log[j].pos < log[k].pos

\* Some argument of task k holds a reference to a name that is not set.
RefsUndefined(k) ==
    \E a \in 1..Len(exec_list[k].args) :
        LET sc == ScanTags(exec_list[k].args[a], 1, FALSE, <<>>, <<>>) IN
        ~sc.panic /\ \E t \in 1..Len(sc.tags) : ~EnvDefined(env, sc.tags[t])

\* C6: when a task that passed its gate check references an undefined
\* variable, the run is over with an error: the task is not spawned, has no
\* outcome, accrues no label and prints nothing, and no later task is
\* gate-checked, spawned or reported.
C6_UndefinedVariableAborts ==
    \A i \in 1..Len(log) :
        (log[i].kind = "gate" /\ log[i].tok = "met" /\ RefsUndefined(log[i].pos))
            => LET k == log[i].pos IN
               /\ pc = "exit" /\ exit_code # 0
               /\ i + 1 = Len(log) /\ log[i + 1].kind = "panic"
               /\ Len(outcome) = k - 1
               /\ ~SpawnedAt(k)
               /\ LogAt(Printed \cup {"spawn", "accrue"}, k) = {}
               /\ \A m \in Positions :
                     m > k => ~SpawnedAt(m) /\ LogAt(Printed \cup {"gate", "spawn"}, m) = {}
               /\ Elems(succ_label_list) \subseteq {exec_list[m].label : m \in 1..(k - 1)}

\* The run aborted in a task that references an unset name, with a task
\* still behind it.
C6_Witness ==
    /\ pc = "exit" /\ log # <<>> /\ log[Len(log)].kind = "panic"
    /\ idx + 1 < Len(exec_list)
    /\ RefsUndefined(idx + 1)
    /\ exec_list[idx + 1].print_status /\ exec_list[idx + 1].label # <<>>

\* ------------------------------------------------ claims on compile_arg
\* Occurrences of pat in s.
Occurrences(s, pat) ==
    {i \in 1..(Len(s) - Len(pat) + 1) : SubSeq(s, i, i + Len(pat) - 1) = pat}

BraceFree(s) == \A i \in 1..Len(s) : s[i] \notin {"{", "}"}

\* The escaped forms in a: $ or \, then {NAME} with no brace in NAME.
EscapedForms(a) ==
    {SubSeq(a, p[1], p[2]) :
        p \in {q \in (1..Len(a)) \X (1..Len(a)) :
                 /\ q[2] >= q[1] + 2
                 /\ a[q[1]] \in {"$", "\\"} /\ a[q[1] + 1] = "{" /\ a[q[2]] = "}"
                 /\ BraceFree(SubSeq(a, q[1] + 2, q[2] - 1))}}

\* C7: every occurrence of an escaped form ${NAME} or \{NAME} of the
\* argument is literal text of the result of compile_arg.
C7_EscapedFormsStayLiteral ==
    (compiled # None /\ compiled.status = "ok")
        => \A f \in EscapedForms(arg) :
              Cardinality(Occurrences(compiled.value, f)) >= Cardinality(Occurrences(arg, f))

\* The reference names the scan of a collects.
TagsOf(a) == ScanTags(a, 1, FALSE, <<>>, <<>>)

\* a is well-formed and each of its references names a set variable.
AllRefsDefined(a, e) ==
    ~TagsOf(a).panic /\ \A t \in Elems(TagsOf(a).tags) : EnvDefined(e, t)

\* a has neither an unescaped { nor an unescaped }.
NoDelimiters(a) == \A i \in 1..Len(a) : ~OpensRef(a, i) /\ ~ClosesRef(a, i)

\* One pass over s, each {NAME} with NAME in names replaced by its value.
RECURSIVE Substitute(_, _, _)
Substitute(s, names, e) ==
    IF s = <<>> THEN <<>>
    ELSE LET hits == {n \in names : /\ Len(s) >= Len(n) + 2
                                    /\ SubSeq(s, 1, Len(n) + 2) = <<"{">> \o n \o <<"}">>}
         IN IF hits # {}
            THEN LET n == CHOOSE n \in hits : TRUE
                 IN e[n] \o Substitute(SubSeq(s, Len(n) + 3, Len(s)), names, e)
            ELSE <<Head(s)>> \o Substitute(Tail(s), names, e)

\* C8 as stated: when every reference names a set variable the result is
\* the argument with every {NAME} replaced by the value of NAME, and an
\* argument without unescaped delimiters comes back unchanged.
C8_EveryReferenceReplaced ==
    compiled # None =>
        /\ AllRefsDefined(arg, env)
              => /\ compiled.status = "ok"
                 /\ compiled.value = Substitute(arg, Elems(TagsOf(arg).tags), env)
        /\ NoDelimiters(arg) => compiled.status = "ok" /\ compiled.value = arg

\* No { of a is escaped and no value substituted into a holds a brace.
Plain(a, e) ==
    /\ \A i \in 1..Len(a) : a[i] = "{" => OpensRef(a, i)
    /\ \A t \in Elems(TagsOf(a).tags) : BraceFree(e[t])

\* C8, amended: the same, for arguments in which no { is escaped and
\* values without braces.
C8_PlainReferencesReplaced ==
    compiled # None =>
        /\ (AllRefsDefined(arg, env) /\ Plain(arg, env))
              => /\ compiled.status = "ok"
                 /\ compiled.value = Substitute(arg, Elems(TagsOf(arg).tags), env)
        /\ NoDelimiters(arg) => compiled.status = "ok" /\ compiled.value = arg

\* Two references were replaced in an argument that holds other text too.
C8_Witness ==
    /\ compiled # None /\ compiled.status = "ok"
    /\ AllRefsDefined(arg, env) /\ Plain(arg, env)
    /\ Len(TagsOf(arg).tags) = 2
    /\ env[NameA] # <<>>
    /\ Len(compiled.value) = 3

\* ------------------------------------------ claims on the engine, continued
\* The non-empty labels that two or more tasks carry.
SharedLabels ==
    {l \in {exec_list[k].label : k \in Positions} :
        l # <<>> /\ \E i, j \in Positions : i # j /\ exec_list[i].label = l /\ exec_list[j].label = l}

Warnings == {i \in 1..Len(log) : log[i].kind = "warn"}

\* C9: the duplicate-label warning lists exactly the non-empty labels that
\* two or more tasks carry, each once, ascending; it is printed at most once,
\* before any task is processed, and only when there is such a label; and
\* no task is kept from running by it.
C9_DuplicateWarning ==
    /\ Cardinality(Warnings) <= 1
    /\ \A i \in Warnings :
          /\ i = 2 /\ log[1].kind = "header"
          /\ Elems(log[i].ref) = SharedLabels
          /\ \A a, b \in 1..Len(log[i].ref) : a < b => StrLess(log[i].ref[a], log[i].ref[b])
    /\ (log # <<>> /\ log[1].kind = "header") => (Warnings # {} <=> SharedLabels # {})
    /\ \A k \in Processed : outcome[k] = "SKIP" => Unmet(k)
    /\ (pc = "exit" /\ Fatal = {}) => Len(outcome) = Len(exec_list)

\* A finished run that warned about two labels and ran every task.
C9_Witness ==
    /\ pc = "exit" /\ exit_code = 0
    /\ \E i \in Warnings : Len(log[i].ref) = 2
    /\ \A k \in Processed : outcome[k] # "SKIP"

\* C10: the process exits non-zero exactly when a fatal error occurred: an
\* unreadable or malformed file (then no task was gate-checked or spawned), a
\* templating failure or a decoding failure; otherwise zero, whatever the
\* outcomes of the tasks.
C10_ExitStatus ==
    /\ pc # "exit" => exit_code = -1
    /\ pc = "exit" =>
          /\ exit_code = 0 <=> Fatal = {}
          /\ \A i \in Fatal :
                log[i].tok \in {"io", "invalid_data"}
                    => Len(log) = 1 /\ spawned = <<>> /\ outcome = <<>>

\* A run that exited zero with a failed and a skipped task.
C10_Witness ==
    /\ pc = "exit" /\ exit_code = 0
    /\ \E i, j \in Processed : outcome[i] = "ERR" /\ outcome[j] = "SKIP"

\* succ_label_list is extended at its end, or left as it is.
Grows ==
    /\ Len(succ_label_list) <= Len(succ_label_list')
    /\ \A i \in 1..Len(succ_label_list) : succ_label_list'[i] = succ_label_list[i]

\* A task all of whose prerequisites were completed with OK before it is
\* not skipped, whatever happened to tasks with those labels in between.
GatedOnSuccessRuns == \A k \in Processed : ~Unmet(k) => outcome[k] # "SKIP"

\* C11: succ_label_list only grows: every step leaves it as it is or
\* appends to it, so a label stays once added, and a later task gated on
\* it runs even after a task with the same label failed or was skipped.
C11_SuccessLabelsOnlyGrow == [][Grows]_vars /\ []GatedOnSuccessRuns

\* A label was added, a later task with the same label failed, and a task
\* gated on the label ran after that.
C11_Witness ==
    /\ Len(outcome) >= 3
    /\ exec_list[1].label = LabelA /\ outcome[1] = "OK"
    /\ exec_list[2].label = LabelA /\ outcome[2] = "ERR"
    /\ exec_list[3].prerequisites = <<LabelA>> /\ outcome[3] \in {"OK", "ERR"}
    /\ Contains(succ_label_list, LabelA)

\* The outcome and the captured output the claim gives for what the
\* process did.
ExpectedStatus(r) == IF r = "exit_zero" THEN "OK" ELSE "ERR"
ExpectedOutput(r) ==
    CASE r = "spawn_error" -> "oserror" [] r = "exit_zero" -> "stdout" [] r = "exit_nonzero" -> "stderr"

Reached(k) == LogAt({"gate"}, k) # {}
GateFailed(k) == \E i \in LogAt({"gate"}, k) : log[i].tok = "unmet"

\* What is printed for task k: one status line when print_status is set and
\* none otherwise, SKIP on it when the gate check failed; the output when
\* print_output is set and the gate check passed; the diagnostic when the
\* gate check failed.
ReportsAsFlagged(k) ==
    LET failed == GateFailed(k)
        status == LogAt({"status"}, k)
    IN
    /\ Cardinality(status) = (IF exec_list[k].print_status THEN 1 ELSE 0)
    /\ failed => \A i \in status : log[i].tok = "SKIP"
    /\ Cardinality(LogAt({"output"}, k))
         = (IF exec_list[k].print_output /\ ~failed THEN 1 ELSE 0)
    /\ Cardinality(LogAt({"diag"}, k)) = (IF failed THEN 1 ELSE 0)

\* C13 as stated: every task that is reached is reported as its flags say.
C13_EveryReachedTaskReported == \A k \in Positions : Reached(k) => ReportsAsFlagged(k)

\* C13, amended: every task that is reached and in which the run does not
\* abort is reported as its flags say.
C13_EveryProcessedTaskReported ==
    \A k \in Positions : (Reached(k) /\ k \in Processed) => ReportsAsFlagged(k)

\* A finished run with a skipped task that prints no status line and a task
\* that ran and prints its output but no status line.
C13_Witness ==
    /\ pc = "exit" /\ exit_code = 0
    /\ \E k \in Processed : outcome[k] = "SKIP" /\ ~exec_list[k].print_status
    /\ \E k \in Processed :
          outcome[k] # "SKIP" /\ exec_list[k].print_output /\ ~exec_list[k].print_status

\* The place of an event within the iteration of its task.
Rank(kind) ==
    CASE kind = "header" -> 0
      [] kind = "warn"   -> 1
      [] kind = "gate"   -> 1
      [] kind = "spawn"  -> 2
      [] kind = "accrue" -> 3
      [] kind = "status" -> 4
      [] kind = "output" -> 5
      [] kind = "diag"   -> 6
      [] OTHER           -> 7

\* C14: the events of a run occur in list order: each event is followed by
\* a later event of its task or by an event of a later task, so that every
\* event of task i comes before every event of task i+1, and within a task
\* the order is gate
\* check, spawn, label accrual, status line, output, with the SKIP line of a
\* skipped task before its diagnostic; so each task is gate-checked at most
\* once and spawned at most once.
C14_EventsInListOrder ==
    \A i \in 1..(Len(log) - 1) :
        \/ log[i].pos < log[i + 1].pos
        \/ log[i].pos = log[i + 1].pos /\ Rank(log[i].kind) < Rank(log[i + 1].kind)

\* A task with all five events of a task that ran, followed by a skipped
\* task with its SKIP line and its diagnostic.
C14_Witness ==
    \E k \in Positions :
        /\ k + 1 \in Processed
        /\ \A kind \in {"gate", "spawn", "accrue", "status", "output"} : LogAt({kind}, k) # {}
        /\ \A kind \in {"gate", "status", "diag"} : LogAt({kind}, k + 1) # {}
        /\ ~SpawnedAt(k + 1)

\* The process of task k was spawned and its captured output (stdout after
\* a zero exit, stderr after a non-zero one) is not valid UTF-8.
DecodeFails(k) ==
    \E i \in LogAt({"spawn"}, k) : log[i].tok \in {"exit_zero_not_utf8", "exit_nonzero_not_utf8"}

\* C15: when the captured output of a spawned task is not valid text the
\* run aborts with an error, whatever print_output is: the label of the task
\* is not added to succ_label_list, no status or output line is printed for
\* it, and no later task is processed.
C15_UndecodableOutputAborts ==
    \A k \in Positions : DecodeFails(k) =>
        /\ pc = "exit" /\ exit_code # 0
        /\ log[Len(log)] = Ev("error", k, "utf8", <<>>)
        /\ LogAt({"accrue", "status", "output", "diag"}, k) = {}
        /\ Len(outcome) = k - 1
        /\ Elems(succ_label_list)
             = {exec_list[j].label : j \in {m \in 1..(k - 1) : outcome[m] = "OK"}} \ {<<>>}
        /\ \A m \in (k + 1)..Len(exec_list) :
              ~SpawnedAt(m) /\ \A i \in 1..Len(log) : log[i].pos # m

\* The run aborted on the undecodable output of a labelled task with
\* print_status set and print_output not set, whose label no earlier task
\* had completed, and a later task was left.
C15_Witness ==
    \E k \in Positions :
        /\ DecodeFails(k) /\ pc = "exit"
        /\ exec_list[k].print_status /\ ~exec_list[k].print_output
        /\ exec_list[k].label # <<>> /\ ~OkBefore(k, exec_list[k].label)
        /\ k < Len(exec_list)

\* The references of an argument whose scan meets no nested "{": the
\* positions of the unescaped "{", each with the next unescaped "}" after it.
RefOpens(a) ==
    {i \in 1..Len(a) : OpensRef(a, i) /\ \E j \in (i + 1)..Len(a) : ClosesRef(a, j)}
RefClose(a, i) ==
    CHOOSE j \in (i + 1)..Len(a) :
        ClosesRef(a, j) /\ \A m \in (i + 1)..(j - 1) : ~ClosesRef(a, m)
NthRefOpen(a, n) ==
    CHOOSE i \in RefOpens(a) : Cardinality({m \in RefOpens(a) : m <= i}) = n
TextBetween(a, n) ==
    LET i == NthRefOpen(a, n) IN SubSeq(a, i + 1, RefClose(a, i) - 1)

\* C16: the name compile_arg looks up for a reference is the text between
\* its unescaped "{" and the next unescaped "}", character for character,
\* escaped braces between them included.
C16_NameIsTextBetweenDelimiters ==
    (pc = "arg_done" /\ ~TagsOf(arg).panic) =>
        \A n \in 1..Len(compiled.lookups) : compiled.lookups[n] = TextBetween(arg, n)

\* Scanning a left to right meets an unescaped "{" while the reference
\* opened by an earlier unescaped "{" is still open.
NestedOpen(a) ==
    \E i, j \in 1..Len(a) :
        /\ i < j /\ OpensRef(a, i) /\ OpensRef(a, j)
        /\ \A m \in (i + 1)..(j - 1) : ~ClosesRef(a, m)

\* The first argument of task k has a nested "{".
MalformedFirst(k) == exec_list[k].args # <<>> /\ NestedOpen(exec_list[k].args[1])

\* C17: when the scan of an argument meets an unescaped "{" inside an open
\* reference, templating stops with an error and the run fails: nothing is
\* looked up and nothing substituted for that argument, well-formed
\* references in it included, and the program of the task is not spawned.
C17_NestedOpenAborts ==
    \A i \in 1..Len(log) :
        (log[i].kind = "gate" /\ log[i].tok = "met" /\ MalformedFirst(log[i].pos))
            => LET k == log[i].pos IN
               /\ compile_arg(exec_list[k].args[1], env)
                    = [status |-> "panic", value |-> <<>>, lookups |-> <<>>]
               /\ pc = "exit" /\ exit_code # 0
               /\ i + 1 = Len(log) /\ log[i + 1].kind = "panic"
               /\ ~SpawnedAt(k) /\ LogAt({"spawn"}, k) = {}
               /\ Len(outcome) = k - 1

\* The run aborted in a task whose argument holds a well-formed reference
\* to a name that is set, ahead of the nested "{".
C17_Witness ==
    /\ pc = "exit" /\ log # <<>> /\ log[Len(log)].kind = "panic"
    /\ idx < Len(exec_list)
    /\ MalformedFirst(idx + 1)
    /\ EnvDefined(env, NameA)
    /\ Occurrences(exec_list[idx + 1].args[1], <<"{", "A", "}">>) # {}

\* s after the first n names of the list have each had their turn: in its
\* turn every {NAME} of the working string is replaced in one pass.
RECURSIVE SubstituteInTurn(_, _, _, _)
SubstituteInTurn(s, names, n, e) ==
    IF n = 0 THEN s
    ELSE Substitute(SubstituteInTurn(s, names, n - 1, e), {names[n]}, e)

\* C18: the result of compile_arg is that of collecting the names in one
\* scan of the argument and then giving each collected name its turn, in
\* collection order, over the working string: text a replacement inserts is
\* replaced again by the turns that follow, and by no other.
C18_NamesReplacedInTurn ==
    compiled # None =>
        LET sc == TagsOf(arg)
            names == sc.tags
        IN
        sc.panic \/
        /\ Len(compiled.lookups) <= Len(names)
        /\ \A n \in 1..Len(compiled.lookups) : compiled.lookups[n] = names[n]
        /\ (\A n \in 1..Len(names) : EnvDefined(env, names[n]))
              => /\ compiled.status = "ok"
                 /\ Len(compiled.lookups) = Len(names)
                 /\ compiled.value = SubstituteInTurn(arg, names, Len(names), env)

\* The value of one name brought in the placeholder of a name whose turn
\* came afterwards: the result is not that of one pass over the argument.
C18_Witness ==
    /\ compiled # None /\ compiled.status = "ok"
    /\ TagsOf(arg).tags = <<NameA, NameDollar>>
    /\ compiled.value # Substitute(arg, {NameA, NameDollar}, env)
    /\ compiled.value = <<"v", "v">>

\* Templating the arguments of task k would fail: a reference to an unset
\* name, or a nested "{".
TemplatingWouldFail(k) == CompileArgs(exec_list[k].args, env).status = "panic"

\* C19: the arguments of a skipped task are never templated: a task with
\* unmet prerequisites gets outcome SKIP and the run goes on to the next
\* task, whatever its arguments hold; a templating error is only raised in
\* a task that passed its gate check.
C19_SkippedTaskNotTemplated ==
    \A k \in Positions :
        /\ LogAt({"panic"}, k) # {}
              => ~Unmet(k) /\ \E i \in LogAt({"gate"}, k) : log[i].tok = "met"
        /\ (Reached(k) /\ Unmet(k))
              => /\ k \in Processed /\ outcome[k] = "SKIP"
                 /\ LogAt({"panic", "error", "spawn"}, k) = {}
                 /\ (pc = "exit" /\ k < Len(exec_list)) => Reached(k + 1)

\* A finished run that skipped a task referencing an unset name and then
\* a task with a nested "{".
C19_Witness ==
    /\ pc = "exit" /\ exit_code = 0 /\ Len(outcome) = 2
    /\ outcome[1] = "SKIP" /\ RefsUndefined(1) /\ TemplatingWouldFail(1)
    /\ outcome[2] = "SKIP" /\ MalformedFirst(2) /\ TemplatingWouldFail(2)

\* An unescaped "{" with no unescaped "}" after it; an unescaped "}" with
\* no reference open before it.
DanglingOpen(a, i) == OpensRef(a, i) /\ \A j \in (i + 1)..Len(a) : ~ClosesRef(a, j)
StrayClose(a, j) ==
    /\ ClosesRef(a, j)
    /\ \A i \in 1..(j - 1) : OpensRef(a, i) => \E m \in (i + 1)..(j - 1) : ClosesRef(a, m)

\* C20: a "{" that is never closed and a "}" that closes nothing raise no
\* error in compile_arg: no name is collected and nothing is looked up for
\* them, so that the lookups are those of the closed references and the
\* only failure of an argument without a nested "{" is an unset name.
C20_UnbalancedDelimitersIgnored ==
    (compiled # None /\ ~NestedOpen(arg)) =>
        /\ Len(compiled.lookups) <= Cardinality(RefOpens(arg))
        /\ compiled.status = "ok" => Len(compiled.lookups) = Cardinality(RefOpens(arg))
        /\ compiled.status # "ok"
              => /\ compiled.lookups # <<>>
                 /\ ~EnvDefined(env, compiled.lookups[Len(compiled.lookups)])
        /\ RefOpens(arg) = {}
              => compiled = [status |-> "ok", value |-> arg, lookups |-> <<>>]

\* An argument with a "}" that closes nothing, one closed reference and a
\* "{" that is never closed was compiled.
C20_Witness ==
    /\ compiled # None /\ compiled.status = "ok"
    /\ \E j \in 1..Len(arg) : StrayClose(arg, j)
    /\ \E i \in 1..Len(arg) : DanglingOpen(arg, i)
    /\ compiled.lookups = <<NameA>>
    /\ compiled.value # arg
====
